---- MODULE Spec2Model ----
(***************************************************************************)
(* Document ingestion and retrieval service (pranesh-j/RAG-system).        *)
(*                                                                         *)
(* Spec      : the HTTP handlers of app/api/endpoints.py, run one request  *)
(*             at a time over the vector store, plus the direct calls of   *)
(*             the store service that tests/test_services.py makes.        *)
(* SpecEmbed : one call of EmbeddingService.get_batch_embeddings with its  *)
(*             thread pool, request by request.                            *)
(***************************************************************************)
EXTENDS Integers, Sequences, FiniteSets, TLC

(***************************************************************************)
(* Bounds of the model.                                                    *)
(***************************************************************************)
\* document ids the model distinguishes
MaxDocs == 2
\* temporary files that may exist at once before uploads stop
MaxTemp == 1
\* longest input list of one get_batch_embeddings call in SpecEmbed
MaxTexts == 5
\* longest input list of the calls followed to their end under fairness
MaxFairTexts == 4
\* settings.MAX_CHUNKS_PER_DOC (1000 in the source), scaled down
MAX_CHUNKS_PER_DOC == 2
\* EmbeddingService.batch_size (10 in the source), scaled down
batch_size == 2
\* EmbeddingService.max_workers (3 in the source), scaled down
max_workers == 2

(***************************************************************************)
(* Program constants.                                                      *)
(***************************************************************************)
retry_attempts == 3
retry_delay == 1
DefaultDim == 768
ModelDim == 768

\* variant: one more format let through by the extension check
SUPPORTED_FORMATS_extra == {"pdf", "docx", "txt", "json", "invalid"}

SUPPORTED_FORMATS == {"pdf", "docx", "txt", "json"}

\* chunks the store holds before direct upserts stop: one full document
MaxStore == MAX_CHUNKS_PER_DOC

DocIds == 1..MaxDocs
TempIds == 1..MaxTemp

(***************************************************************************)
(* Filenames.  A filename is the list of its dot-separated pieces, i.e.    *)
(* filename.split('.'): "test.txt" is <<"test","txt">>, "txt" is <<"txt">>,*)
(* ".pdf" is <<"","pdf">>.                                                 *)
(***************************************************************************)
\* str.lower() on the pieces that occur
Lower(s) ==
    CASE s = "JSON" -> "json"
      [] s = "TXT" -> "txt"
      [] s = "PDF" -> "pdf"
      [] s = "DOCX" -> "docx"
      [] OTHER -> s

\* endpoints.py: file.filename.split('.')[-1].lower()
file_extension(filename) == Lower(filename[Len(filename)])

\* pathlib: Path(name).suffix is name[i:] for i = name.rfind('.') when
\* 0 < i < len(name) - 1, and '' otherwise; file_handler.py takes
\* .lower()[1:] of it.
suffix_extension(filename) ==
    LET n == Len(filename) IN
    IF n >= 2 /\ filename[n] # "" /\ ~(n = 2 /\ filename[1] = "")
    THEN Lower(filename[n])
    ELSE ""

(***************************************************************************)
(* File contents.  The text splitter and the parsers are libraries; a      *)
(* content is described by what extraction makes of it.                    *)
(***************************************************************************)
\* contents: "empty", "one", "big", "nan" (JSON with a NaN), "corrupt"
\* number of chunks RecursiveCharacterTextSplitter.split_text yields
RawChunkCount(c) ==
    CASE c = "empty" -> 0
      [] c = "one" -> 1
      [] c = "nan" -> 1
      [] c = "big" -> MAX_CHUNKS_PER_DOC + 1
      [] OTHER -> 0

\* the k-th chunk text of content c
ChunkText(c, k) == <<c, k>>

split_text(c) == [k \in 1..RawChunkCount(c) |-> ChunkText(c, k)]

\* variant: the cap is not applied
LimitChunks_none(chunks) == chunks

\* chunks[:settings.MAX_CHUNKS_PER_DOC]
LimitChunks(chunks) ==
    IF Len(chunks) > MAX_CHUNKS_PER_DOC
    THEN SubSeq(chunks, 1, MAX_CHUNKS_PER_DOC)
    ELSE chunks

\* fitz.open / Document / json.load raise on an unreadable file
ExtractionFails(c) == c = "corrupt"

\* json.load accepts the literals NaN and Infinity; such a body is "nan"
StructuredData(c) == IF c = "nan" THEN "nan" ELSE "obj"

processors == {"pdf", "docx", "txt", "json"}

\* process_file: [raised, chunks, metadata]
NoMetadata == [file_type |-> "", chunk_count |-> -1, structured_data |-> ""]

process_file(c, file_type) ==
    IF file_type \notin processors \/ ExtractionFails(c)
    THEN [raised |-> TRUE, chunks |-> <<>>, metadata |-> NoMetadata]
    ELSE LET chunks == LimitChunks(split_text(c)) IN
         IF file_type = "json"
         THEN [raised |-> FALSE, chunks |-> chunks,
               metadata |-> [file_type |-> file_type, chunk_count |-> -1,
                             structured_data |-> StructuredData(c)]]
         ELSE [raised |-> FALSE, chunks |-> chunks,
               metadata |-> [file_type |-> file_type,
                             chunk_count |-> Len(chunks),
                             structured_data |-> ""]]


\* the uploaded files the model draws from: declared filename and content
Files ==
    { [name |-> <<"test", "txt">>, content |-> "one"],
      [name |-> <<"test", "txt">>, content |-> "big"],
      [name |-> <<"test", "txt">>, content |-> "empty"],
      [name |-> <<"test", "txt">>, content |-> "corrupt"],
      [name |-> <<"data", "JSON">>, content |-> "nan"],
      [name |-> <<"test", "invalid">>, content |-> "one"],
      [name |-> <<"txt">>, content |-> "one"] }

\* the files an UPDATE is sent with: a good one, a corrupt one, and the
\* names without a supported extension
UpdateFiles == {file \in Files : file.content \in {"one", "corrupt"}}

NoFile == [name |-> <<"">>, content |-> ""]

(***************************************************************************)
(* Embedding client (app/services/embeddings.py).  A vector is described   *)
(* by its length and by the text it embeds.  The outcome of the requests   *)
(* for one text is the number of requests that fail before the first one   *)
(* that succeeds.                                                          *)
(***************************************************************************)
\* result['embedding'] of genai.embed_content for a text, from a model
\* whose vectors have length d
Embedding(text, d) == [dim |-> d, of |-> text]

\* the same from models/embedding-001
Emb(text) == Embedding(text, ModelDim)

\* [0.0] * dim
ZeroVector(dim) == [dim |-> dim, of |-> <<"zero", 0>>]

\* the None that _process_text_batch leaves in a failed slot
None == [dim |-> 0, of |-> <<"none", 0>>]

\* get_embeddings(text) when the first f requests fail
get_embeddings(text, f) ==
    IF f < retry_attempts
    THEN [raised |-> FALSE, value |-> Emb(text)]
    ELSE [raised |-> TRUE, value |-> None]

\* _process_text_batch(batch): fails[i] requests for batch[i] fail first
process_text_batch(batch, fails) ==
    [i \in 1..Len(batch) |->
        IF fails[i] < retry_attempts THEN Emb(batch[i]) ELSE None]

\* [texts[i:i + batch_size] for i in range(0, len(texts), batch_size)]
Batches(texts) ==
    LET n == Len(texts)
        m == (n + batch_size - 1) \div batch_size
    IN [g \in 1..m |->
          SubSeq(texts, (g - 1) * batch_size + 1,
                 IF g * batch_size < n THEN g * batch_size ELSE n)]

\* for batch_result in batch_results: all_embeddings.extend(batch_result)
RECURSIVE Flatten(_)
Flatten(lists) ==
    IF lists = <<>> THEN <<>> ELSE Head(lists) \o Flatten(Tail(lists))

\* next((len(emb) for emb in all_embeddings if emb is not None), 768)
FirstDim(all) ==
    LET idx == {i \in 1..Len(all) : all[i] # None} IN
    IF idx = {} THEN DefaultDim
    ELSE all[CHOOSE i \in idx : \A j \in idx : i <= j].dim

\* the loop "for i, embedding in enumerate(all_embeddings)" from index i on
RECURSIVE Fallback(_, _, _, _)
Fallback(all, texts, fails, i) ==
    IF i > Len(all) THEN all
    ELSE IF all[i] # None THEN Fallback(all, texts, fails, i + 1)
    ELSE LET r == get_embeddings(texts[i], fails[i] - retry_attempts)
             v == IF r.raised THEN ZeroVector(FirstDim(all)) ELSE r.value
         IN Fallback([all EXCEPT ![i] = v], texts, fails, i + 1)

\* get_batch_embeddings(texts) when fails[i] requests for texts[i] fail first
get_batch_embeddings(texts, fails) ==
    IF texts = <<>> THEN <<>>
    ELSE LET bs == Batches(texts)
             fs == Batches(fails)
             batch_results ==
                 [g \in 1..Len(bs) |-> process_text_batch(bs[g], fs[g])]
         IN Fallback(Flatten(batch_results), texts, fails, 1)

\* failure counts the handlers' embedding calls are tried with
FailCounts == {0, 2 * retry_attempts}

\* request outcomes of a call on n texts: none fails, or every request for
\* the last text fails
FailPatterns(n) ==
    { [i \in 1..n |-> 0],
      [i \in 1..n |-> IF i = n THEN 2 * retry_attempts ELSE 0] }

(***************************************************************************)
(* Vector store (app/services/weaviate_service.py).  The store is the      *)
(* sequence of DocumentChunk objects in insertion order.                   *)
(***************************************************************************)
\* str(metadata)
PyStr(metadata) == <<"repr", metadata>>

\* eval(text) raises NameError on the repr of a float nan or inf
EvalRaises(text) == text[2].structured_data = "nan"

\* eval(text)
PyEval(text) == text[2]

Min(a, b) == IF a < b THEN a ELSE b

\* variant: chunkIndex counted from 1
ChunkObjects_from1(chunks, embeddings, document_id, file_type, metadata) ==
    [i \in 1..Min(Len(chunks), Len(embeddings)) |->
        [content |-> chunks[i],
         documentId |-> document_id,
         chunkIndex |-> i,
         fileType |-> file_type,
         metadata |-> PyStr(metadata),
         vector |-> embeddings[i]]]

\* variant: only the first object carries the file type and the metadata
ChunkObjects_first_only(chunks, embeddings, document_id, file_type, metadata) ==
    [i \in 1..Min(Len(chunks), Len(embeddings)) |->
        [content |-> chunks[i],
         documentId |-> document_id,
         chunkIndex |-> i - 1,
         fileType |-> IF i = 1 THEN file_type ELSE "",
         metadata |-> IF i = 1 THEN PyStr(metadata) ELSE PyStr(NoMetadata),
         vector |-> embeddings[i]]]

\* the objects the loop over enumerate(zip(chunks, embeddings)) adds
ChunkObjects(chunks, embeddings, document_id, file_type, metadata) ==
    [i \in 1..Min(Len(chunks), Len(embeddings)) |->
        [content |-> chunks[i],
         documentId |-> document_id,
         chunkIndex |-> i - 1,
         fileType |-> file_type,
         metadata |-> PyStr(metadata),
         vector |-> embeddings[i]]]

\* add_document_chunks, the batch being flushed whole
add_document_chunks(s, chunks, embeddings, document_id, file_type, metadata) ==
    s \o ChunkObjects(chunks, embeddings, document_id, file_type, metadata)

\* the where filter {"path": ["documentId"], "operator": "Equal"}
DocChunks(s, document_id) ==
    SelectSeq(s, LAMBDA o : o.documentId = document_id)

\* variant: the filter also asks for chunkIndex 0
delete_document_first(s, document_id) ==
    SelectSeq(s, LAMBDA o : ~(o.documentId = document_id /\ o.chunkIndex = 0))

\* variant: the filter's operator is NotEqual
delete_document_others(s, document_id) ==
    SelectSeq(s, LAMBDA o : o.documentId = document_id)

\* variant: the bulk delete carries no filter
delete_document_all(s, document_id) == <<>>

\* delete_document: batch.delete_objects with the where filter
delete_document(s, document_id) ==
    SelectSeq(s, LAMBDA o : o.documentId # document_id)

Range(f) == {f[i] : i \in DOMAIN f}

\* get_document_metadata: the values it may return (the store picks the
\* object of .with_limit(1)); found = FALSE is Python's None
NotFound == [found |-> FALSE, raised |-> FALSE, fileType |-> "",
             metadata |-> NoMetadata]

\* variant: an empty result is answered with an empty dict entry, not None
get_document_metadata_never_none(s, document_id) ==
    LET chunks == DocChunks(s, document_id) IN
    IF chunks = <<>>
    THEN {[found |-> TRUE, raised |-> FALSE, fileType |-> "",
           metadata |-> NoMetadata]}
    ELSE { IF EvalRaises(o.metadata)
           THEN [found |-> FALSE, raised |-> TRUE, fileType |-> "",
                 metadata |-> NoMetadata]
           ELSE [found |-> TRUE, raised |-> FALSE, fileType |-> o.fileType,
                 metadata |-> PyEval(o.metadata)]
           : o \in Range(chunks) }

get_document_metadata(s, document_id) ==
    LET chunks == DocChunks(s, document_id) IN
    IF chunks = <<>> THEN {NotFound}
    ELSE { IF EvalRaises(o.metadata)
           THEN [found |-> FALSE, raised |-> TRUE, fileType |-> "",
                 metadata |-> NoMetadata]
           ELSE [found |-> TRUE, raised |-> FALSE, fileType |-> o.fileType,
                 metadata |-> PyEval(o.metadata)]
           : o \in Range(chunks) }

\* certainty of the store's near-vector search, in percent
Certainty(q, v) ==
    CASE v.of[1] = "zero" \/ q.of[1] = "zero" -> 0
      [] v.of = q.of -> 100
      [] v.of[1] = q.of[1] -> 80
      [] OTHER -> 50

\* "certainty": 0.7
CertaintyFloor == 70
CertaintyLevels == <<100, 80>>

\* variant: the search carries no where filter
query_document_anydoc(s, query_embedding, document_id, limit) ==
    LET ranked == Flatten([k \in 1..Len(CertaintyLevels) |->
                     SelectSeq(s, LAMBDA o :
                        /\ Certainty(query_embedding, o.vector)
                              = CertaintyLevels[k]
                        /\ CertaintyLevels[k] >= CertaintyFloor)])
    IN SubSeq(ranked, 1, Min(limit, Len(ranked)))

\* query_document: where filter, near vector with the floor, limit
query_document(s, query_embedding, document_id, limit) ==
    LET chunks == DocChunks(s, document_id)
        ranked == Flatten([k \in 1..Len(CertaintyLevels) |->
                     SelectSeq(chunks, LAMBDA o :
                        /\ Certainty(query_embedding, o.vector)
                              = CertaintyLevels[k]
                        /\ CertaintyLevels[k] >= CertaintyFloor)])
    IN SubSeq(ranked, 1, Min(limit, Len(ranked)))


(***************************************************************************)
(* State.                                                                  *)
(***************************************************************************)
VARIABLES
    store,      \* the DocumentChunk objects of the vector store
    tempFiles,  \* the files present in temp_uploads
    req,        \* the HTTP request being handled, with the handler's locals
    last,       \* the store-service call the last step made directly or
                \* as a delete, if any
    single,     \* per document id: its stored chunks were all written by
                \* one add_document_chunks call
    given,      \* per document id: the chunk list passed to that call
    texts,      \* SpecEmbed: the input list of get_batch_embeddings
    epc,        \* SpecEmbed: position of the get_batch_embeddings call
    queue,      \* SpecEmbed: batches submitted to the pool, not yet taken
    worker,     \* SpecEmbed: per thread of the pool, what it is doing
    batch_results, \* SpecEmbed: per batch, the list its task returned
    all_embeddings, \* SpecEmbed: the flattened list being repaired
    fb,         \* SpecEmbed: position of the fallback loop
    requests,   \* SpecEmbed: per text, outcomes of its requests so far
    dim,        \* SpecEmbed: length of the vectors the model returns
    other,      \* SpecRace: the second request, suspended at an await
    settings,   \* SpecProcessor: CHUNK_SIZE and CHUNK_OVERLAP as loaded
    processor,  \* SpecProcessor: the DocumentProcessor singleton
    data,       \* SpecProcessor: the parsed JSON file being processed
    aggregation_metadata \* SpecProcessor: what _extract_json_metadata
                \* returned for data

pipeVars == <<store, tempFiles, req, last, single, given>>
embedVars == <<texts, epc, queue, worker, batch_results, all_embeddings,
               fb, requests, dim>>
procVars == <<settings, processor, data, aggregation_metadata>>
vars == <<store, tempFiles, req, last, single, given, texts, epc,
          queue, worker, batch_results, all_embeddings, fb, requests, dim,
          other, settings, processor, data, aggregation_metadata>>

\* what a step of a handler or of a direct service call leaves alone
notPipeVars == <<embedVars, procVars, other>>

\* what a step of get_batch_embeddings leaves alone
notEmbedVars == <<pipeVars, procVars, other>>

NoCall == [call |-> "none", doc |-> 0, raised |-> FALSE, removed |-> 0]

Idle ==
    [op |-> "none", pc |-> "idle", doc |-> 0, file |-> NoFile,
     query |-> <<"", 0>>, limit |-> 0,
     status |-> 0, file_path |-> 0, file_type |-> "",
     chunks |-> <<>>, embeddings |-> <<>>, query_embedding |-> None,
     metadata |-> NoMetadata, docmeta |-> NotFound, matches |-> <<>>,
     groups |-> <<>>, field |-> "", operation |-> "",
     result |-> [result |-> 0, source |-> ""],
     tasks |-> {},
     pre |-> <<>>, saved |-> FALSE, embedded |-> FALSE, read |-> FALSE,
     deleted |-> FALSE, failedAt |-> "", cause |-> ""]

\* a request entering its handler
Begin(op, doc, file) ==
    [Idle EXCEPT !.op = op, !.doc = doc, !.file = file, !.pre = store]

\* raise HTTPException(status_code=..., detail=...) before the try block,
\* or one re-raised by "except HTTPException"
Reject(r, code) == [r EXCEPT !.status = code, !.pc = "done"]

\* "except Exception" of upload_document and update_document: cleanup is
\* scheduled when file_path is bound, then HTTPException(500) is raised
Raise500(r, step, cause) ==
    [r EXCEPT !.status = 500, !.pc = "done", !.failedAt = step,
              !.cause = cause,
              !.tasks = IF r.file_path # 0 /\ r.op \in {"upload", "update"}
                        THEN @ \cup {r.file_path} ELSE @]

\* variant: add_document_chunks also takes filename
AddDocumentChunksParameters_filename ==
    {"chunks", "embeddings", "document_id", "file_type", "metadata",
     "filename"}

\* the parameters of WeaviateService.add_document_chunks besides self
AddDocumentChunksParameters ==
    {"chunks", "embeddings", "document_id", "file_type", "metadata"}

\* the keyword arguments upload_document and update_document pass
EndpointCallKeywords ==
    {"chunks", "embeddings", "document_id", "file_type", "metadata",
     "filename"}

\* a Python call with keywords binds iff every keyword names a parameter
CallBinds(keywords, parameters) == keywords \subseteq parameters

FreeTemp == TempIds \ tempFiles

\* the chunk list remembered for d after an upsert of chunks: kept only
\* while the upsert is the single source of d's stored chunks
GivenAfter(d, chunks) ==
    IF DocChunks(store, d) = <<>> /\ DocChunks(store', d) # <<>>
    THEN chunks ELSE <<>>

\* variant: the new id is any id, also one a stored document carries
FreshIds_any == DocIds

\* str(uuid.uuid4()): an id no stored document carries
FreshIds == {d \in DocIds : DocChunks(store, d) = <<>>}

\* a pool thread with no task
IdleWorker ==
    [state |-> "idle", g |-> 0, i |-> 0, attempt |-> 0, phase |-> "",
     delay |-> 0, result |-> <<>>]

\* the fallback loop before it starts
NoFallback == [i |-> 0, attempt |-> 0, phase |-> "", delay |-> 0]

\* class Settings: the defaults of CHUNK_SIZE and CHUNK_OVERLAP
DefaultSettings == [CHUNK_SIZE |-> 512, CHUNK_OVERLAP |-> 102]

\* no JSON file has been processed
NoData == [kind |-> "none", items |-> <<>>]
NoAggregation == [numeric_fields |-> <<>>, categorical_fields |-> <<>>,
                  keys |-> {}]

\* the process serving requests: settings loaded from the defaults and
\* document_processor = DocumentProcessor() constructed at import
ProcessorLoaded ==
    /\ settings = DefaultSettings
    /\ processor = "ready"
    /\ data = NoData
    /\ aggregation_metadata = NoAggregation

Init ==
    /\ store = <<>>
    /\ tempFiles = {}
    /\ req = Idle
    /\ last = NoCall
    /\ single = [d \in DocIds |-> TRUE]
    /\ given = [d \in DocIds |-> <<>>]
    /\ texts = <<>>
    /\ epc = "off"
    /\ queue = <<>>
    /\ worker = <<>>
    /\ batch_results = <<>>
    /\ all_embeddings = <<>>
    /\ fb = NoFallback
    /\ requests = <<>>
    /\ dim = ModelDim
    /\ other = Idle
    /\ ProcessorLoaded

(***************************************************************************)
(* upload_document                                                         *)
(***************************************************************************)
\* lines 42-52: the extension check, then document_id = str(uuid.uuid4())
StartUpload(file) ==
    /\ req.pc = "idle"
    /\ UNCHANGED notPipeVars
    /\ IF file_extension(file.name) \notin SUPPORTED_FORMATS
       THEN req' = Reject(Begin("upload", 0, file), 400)
       ELSE /\ FreeTemp # {}
            /\ \E d \in FreshIds :
                 req' = [Begin("upload", d, file) EXCEPT !.pc = "save"]
    /\ last' = NoCall
    /\ UNCHANGED <<store, tempFiles, single, given>>

\* file_handler.save_upload_file: (file_path, file_extension), or it raises
SaveFile ==
    /\ req.pc = "save"
    /\ UNCHANGED notPipeVars
    /\ \/ LET path == CHOOSE t \in FreeTemp : \A u \in FreeTemp : t <= u IN
          /\ tempFiles' = tempFiles \cup {path}
          /\ req' = [req EXCEPT !.pc = "process", !.file_path = path,
                        !.file_type = suffix_extension(req.file.name),
                        !.saved = TRUE]
       \/ /\ tempFiles' = tempFiles
          /\ req' = Raise500(req, "save", "io")
    /\ last' = NoCall
    /\ UNCHANGED <<store, single, given>>

\* document_processor.process_file(file_path, file_type)
ProcessFile ==
    /\ req.pc = "process"
    /\ UNCHANGED notPipeVars
    /\ LET r == process_file(req.file.content, req.file_type) IN
       req' = IF r.raised
              THEN Raise500(req, "process",
                            IF req.file_type \notin processors
                            THEN "file_type" ELSE "extract")
              ELSE [req EXCEPT !.pc = "embed", !.chunks = r.chunks,
                               !.metadata = r.metadata]
    /\ last' = NoCall
    /\ UNCHANGED <<store, tempFiles, single, given>>

\* embedding_service.get_batch_embeddings(doc_result["chunks"])
EmbedChunks ==
    /\ req.pc = "embed"
    /\ UNCHANGED notPipeVars
    /\ \E fails \in FailPatterns(Len(req.chunks)) :
         req' = [req EXCEPT !.pc = "store",
                    !.embeddings = get_batch_embeddings(req.chunks, fails),
                    !.embedded = req.chunks # <<>>]
    /\ last' = NoCall
    /\ UNCHANGED <<store, tempFiles, single, given>>

\* weaviate_service.add_document_chunks(chunks=..., ..., filename=...):
\* binding the keywords comes first; then the batch is written whole, or
\* the store fails after some of its objects; on success the cleanup is
\* scheduled and the response built
StoreChunks ==
    /\ req.pc = "store"
    /\ UNCHANGED notPipeVars
    /\ IF ~CallBinds(EndpointCallKeywords, AddDocumentChunksParameters)
       THEN /\ req' = Raise500(req, "store", "TypeError")
            /\ UNCHANGED <<store, single, given>>
       ELSE LET objs == ChunkObjects(req.chunks, req.embeddings, req.doc,
                                     req.file_type, req.metadata)
            IN /\ \/ /\ store' = add_document_chunks(store, req.chunks,
                                    req.embeddings, req.doc, req.file_type,
                                    req.metadata)
                     /\ req' = [req EXCEPT !.pc = "done", !.status = 200,
                                   !.tasks = @ \cup {req.file_path}]
                  \/ \E k \in 0..(Len(objs) - 1) :
                     /\ store' = store \o SubSeq(objs, 1, k)
                     /\ req' = Raise500(req, "store", "store")
               /\ single' = [single EXCEPT ![req.doc] =
                                 DocChunks(store, req.doc) = <<>>]
               /\ given' = [given EXCEPT ![req.doc] =
                                 GivenAfter(req.doc, req.chunks)]
    /\ last' = NoCall
    /\ UNCHANGED tempFiles

\* the response leaves; the background tasks of a handler that returned
\* run (cleanup_file), those of a handler that raised are dropped
Respond ==
    /\ req.pc = "done"
    /\ UNCHANGED notPipeVars
    /\ tempFiles' = IF req.status = 200 THEN tempFiles \ req.tasks
                    ELSE tempFiles
    /\ req' = Idle
    /\ last' = NoCall
    /\ UNCHANGED <<store, single, given>>


(***************************************************************************)
(* update_document, delete_document, query_document (endpoints.py)         *)
(***************************************************************************)
\* lines 107-116: the extension check of update_document
StartUpdate(d, file) ==
    /\ req.pc = "idle"
    /\ UNCHANGED notPipeVars
    /\ IF file_extension(file.name) \notin SUPPORTED_FORMATS
       THEN req' = Reject(Begin("update", d, file), 400)
       ELSE /\ FreeTemp # {}
            /\ req' = [Begin("update", d, file) EXCEPT !.pc = "check"]
    /\ last' = NoCall
    /\ UNCHANGED <<store, tempFiles, single, given>>

\* lines 175-176
StartDelete(d) ==
    /\ req.pc = "idle"
    /\ UNCHANGED notPipeVars
    /\ req' = [Begin("delete", d, NoFile) EXCEPT !.pc = "check"]
    /\ last' = NoCall
    /\ UNCHANGED <<store, tempFiles, single, given>>

QueryTexts == {ChunkText("one", 1), ChunkText("big", 2)}
QueryLimits == {1, 5}

\* the limit the QUERY requests carry
RequestLimits == {1}

\* lines 208-209
StartQuery(d, q, limit) ==
    /\ req.pc = "idle"
    /\ UNCHANGED notPipeVars
    /\ req' = [Begin("query", d, NoFile) EXCEPT !.pc = "qembed",
                  !.query = q, !.limit = limit]
    /\ last' = NoCall
    /\ UNCHANGED <<store, tempFiles, single, given>>

\* line 212: query_embedding = await embedding_service.get_embeddings(query)
QueryEmbed ==
    /\ req.pc = "qembed"
    /\ UNCHANGED notPipeVars
    /\ \E f \in FailCounts :
         LET r == get_embeddings(req.query, f) IN
         req' = IF r.raised
                THEN Raise500([req EXCEPT !.embedded = TRUE],
                              "embed", "embedding")
                ELSE [req EXCEPT !.pc = "check", !.embedded = TRUE,
                                 !.query_embedding = r.value]
    /\ last' = NoCall
    /\ UNCHANGED <<store, tempFiles, single, given>>

\* the step after "if not metadata" was passed
AfterCheck(op) ==
    CASE op = "query" -> "search"
      [] op = "aggregate" -> "aggregate"
      [] OTHER -> "delete"

\* metadata = await weaviate_service.get_document_metadata(document_id);
\* if not metadata: raise HTTPException(status_code=404)
CheckExists ==
    /\ req.pc = "check"
    /\ UNCHANGED notPipeVars
    /\ \/ req' = Raise500([req EXCEPT !.read = TRUE], "check", "store")
       \/ \E m \in get_document_metadata(store, req.doc) :
            req' = IF m.raised
                   THEN Raise500([req EXCEPT !.read = TRUE], "check", "eval")
                   ELSE IF ~m.found
                   THEN Reject([req EXCEPT !.read = TRUE], 404)
                   ELSE [req EXCEPT !.read = TRUE, !.docmeta = m,
                                    !.pc = AfterCheck(req.op)]
    /\ last' = NoCall
    /\ UNCHANGED <<store, tempFiles, single, given>>

\* await weaviate_service.delete_document(document_id)
DeleteChunks ==
    /\ req.pc = "delete"
    /\ UNCHANGED notPipeVars
    /\ \/ /\ store' = delete_document(store, req.doc)
          /\ single' = [single EXCEPT ![req.doc] = TRUE]
          /\ given' = [given EXCEPT ![req.doc] = <<>>]
          /\ req' = IF req.op = "update"
                    THEN [req EXCEPT !.pc = "save", !.deleted = TRUE]
                    ELSE [req EXCEPT !.pc = "done", !.status = 200,
                                     !.deleted = TRUE]
          /\ last' = [call |-> "delete_document", doc |-> req.doc,
                      raised |-> FALSE,
                      removed |-> Len(store) - Len(store')]
       \/ /\ req' = Raise500(req, "delete", "store")
          /\ last' = [call |-> "delete_document", doc |-> req.doc,
                      raised |-> TRUE, removed |-> 0]
          /\ UNCHANGED <<store, single, given>>
    /\ UNCHANGED tempFiles

\* lines 224-236: matches = await weaviate_service.query_document(...)
Search ==
    /\ req.pc = "search"
    /\ UNCHANGED notPipeVars
    /\ \/ req' = [req EXCEPT !.pc = "done", !.status = 200,
                     !.matches = query_document(store, req.query_embedding,
                                                req.doc, req.limit)]
       \/ req' = Raise500(req, "search", "store")
    /\ last' = NoCall
    /\ UNCHANGED <<store, tempFiles, single, given>>

(***************************************************************************)
(* cross_document_query and json_aggregation (endpoints.py)                *)
(***************************************************************************)
\* the methods class WeaviateService defines
WeaviateServiceMethods ==
    {"_setup_schema", "add_document_chunks", "delete_document",
     "query_document", "get_document_metadata"}

\* query and limit of the CrossDocumentQueryRequest: the default limit
CrossTexts == {ChunkText("one", 1)}
CrossLimits == {5}

\* cross_document_query is entered
StartCross(q, limit) ==
    /\ req.pc = "idle"
    /\ UNCHANGED notPipeVars
    /\ req' = [Begin("cross", 0, NoFile) EXCEPT !.pc = "cembed",
                  !.query = q, !.limit = limit]
    /\ last' = NoCall
    /\ UNCHANGED <<store, tempFiles, single, given>>

\* line 257: query_embedding = await embedding_service.get_embeddings(query)
CrossEmbed ==
    /\ req.pc = "cembed"
    /\ UNCHANGED notPipeVars
    /\ \E f \in FailCounts :
         LET r == get_embeddings(req.query, f) IN
         req' = IF r.raised
                THEN Raise500([req EXCEPT !.embedded = TRUE],
                              "embed", "embedding")
                ELSE [req EXCEPT !.pc = "cross", !.embedded = TRUE,
                                 !.query_embedding = r.value]
    /\ last' = NoCall
    /\ UNCHANGED <<store, tempFiles, single, given>>

\* line 260: weaviate_service.query_across_documents is looked up; the class
\* has no such attribute, the AttributeError goes to "except Exception"
CrossSearch ==
    /\ req.pc = "cross"
    /\ UNCHANGED notPipeVars
    /\ "query_across_documents" \notin WeaviateServiceMethods
    /\ req' = Raise500(req, "search", "attribute")
    /\ last' = NoCall
    /\ UNCHANGED <<store, tempFiles, single, given>>

\* the operations a JsonAggregationRequest is sent with
AggregateOperations == {"sum"}

\* json_aggregation is entered
StartAggregate(d, field, operation) ==
    /\ req.pc = "idle"
    /\ UNCHANGED notPipeVars
    /\ req' = [Begin("aggregate", d, NoFile) EXCEPT !.pc = "check",
                  !.field = field, !.operation = operation]
    /\ last' = NoCall
    /\ UNCHANGED <<store, tempFiles, single, given>>

\* lines 364-375: a document that is not a JSON file is answered 400; for a
\* JSON file weaviate_service.json_aggregation_query is looked up, and the
\* class has no such attribute: AttributeError, "except Exception"
Aggregate ==
    /\ req.pc = "aggregate"
    /\ UNCHANGED notPipeVars
    /\ "json_aggregation_query" \notin WeaviateServiceMethods
    /\ req' = IF req.docmeta.fileType # "json"
              THEN Reject(req, 400)
              ELSE Raise500(req, "aggregate", "attribute")
    /\ last' = NoCall
    /\ UNCHANGED <<store, tempFiles, single, given>>

(***************************************************************************)
(* Direct calls of the store service, as tests/test_services.py makes them *)
(***************************************************************************)
ServiceInputs ==
    {<<"one", "json">>, <<"big", "txt">>, <<"nan", "json">>,
     <<"empty", "txt">>}

\* request outcomes of the direct calls on the n chunks of content c: the
\* failing pattern is tried on the one-chunk text file
ServiceFailPatterns(c, n) ==
    IF c = "one" THEN FailPatterns(n) ELSE {[i \in 1..n |-> 0]}

\* embeddings = get_batch_embeddings(chunks);
\* add_document_chunks(chunks, embeddings, document_id, file_type, metadata)
ServiceAdd(d, c, ft) ==
    /\ req.pc = "idle"
    /\ UNCHANGED notPipeVars
    /\ LET res == process_file(c, ft)
           objs(fails) ==
               ChunkObjects(res.chunks,
                            get_batch_embeddings(res.chunks, fails),
                            d, ft, res.metadata)
       IN /\ Len(store) + Len(res.chunks) <= MaxStore
          /\ \E fails \in ServiceFailPatterns(c, Len(res.chunks)) :
               \/ /\ store' = add_document_chunks(store, res.chunks,
                                 get_batch_embeddings(res.chunks, fails),
                                 d, ft, res.metadata)
                  /\ last' = [call |-> "add_document_chunks", doc |-> d,
                              raised |-> FALSE, removed |-> 0]
               \/ \E k \in 0..(Len(objs(fails)) - 1) :
                  /\ store' = store \o SubSeq(objs(fails), 1, k)
                  /\ last' = [call |-> "add_document_chunks", doc |-> d,
                              raised |-> TRUE, removed |-> 0]
          /\ given' = [given EXCEPT ![d] = GivenAfter(d, res.chunks)]
    /\ single' = [single EXCEPT ![d] = DocChunks(store, d) = <<>>]
    /\ UNCHANGED <<tempFiles, req>>

\* weaviate_service.delete_document(document_id)
ServiceDelete(d) ==
    /\ req.pc = "idle"
    /\ UNCHANGED notPipeVars
    /\ \/ /\ store' = delete_document(store, d)
          /\ single' = [single EXCEPT ![d] = TRUE]
          /\ given' = [given EXCEPT ![d] = <<>>]
          /\ last' = [call |-> "delete_document", doc |-> d,
                      raised |-> FALSE,
                      removed |-> Len(store) - Len(store')]
       \/ /\ last' = [call |-> "delete_document", doc |-> d,
                      raised |-> TRUE, removed |-> 0]
          /\ UNCHANGED <<store, single, given>>
    /\ UNCHANGED <<tempFiles, req>>

Next ==
    \/ \E file \in Files : StartUpload(file)
    \/ SaveFile
    \/ ProcessFile
    \/ EmbedChunks
    \/ StoreChunks
    \/ Respond
    \/ \E d \in DocIds, file \in UpdateFiles : StartUpdate(d, file)
    \/ \E d \in DocIds : StartDelete(d)
    \/ \E d \in DocIds, q \in QueryTexts, limit \in RequestLimits :
          StartQuery(d, q, limit)
    \/ QueryEmbed
    \/ CheckExists
    \/ DeleteChunks
    \/ Search
    \/ \E q \in CrossTexts, limit \in CrossLimits : StartCross(q, limit)
    \/ CrossEmbed
    \/ CrossSearch
    \/ \E d \in DocIds, operation \in AggregateOperations :
          StartAggregate(d, "a", operation)
    \/ Aggregate
    \/ \E d \in DocIds, in \in ServiceInputs : ServiceAdd(d, in[1], in[2])
    \/ \E d \in DocIds : ServiceDelete(d)

Spec == Init /\ [][Next]_vars


(***************************************************************************)
(* Two requests on stored documents, interleaved at their awaits           *)
(* (SpecRace).  req is the request whose handler runs, other the one that  *)
(* waits; a handler that has reached "done" stays there.                   *)
(***************************************************************************)
\* what the direct calls stored before the two requests arrive: one
\* document whose metadata reads back
RaceStores ==
    {add_document_chunks(<<>>, process_file(in[1], in[2]).chunks,
        get_batch_embeddings(process_file(in[1], in[2]).chunks,
           [i \in 1..Len(process_file(in[1], in[2]).chunks) |-> 0]),
        1, in[2], process_file(in[1], in[2]).metadata)
       : in \in {<<"one", "json">>, <<"big", "txt">>}}

InitRace ==
    /\ store \in RaceStores
    /\ tempFiles = {}
    /\ req = Idle
    /\ last = NoCall
    /\ single = [d \in DocIds |-> TRUE]
    /\ given = [d \in DocIds |->
                  IF d = 1 THEN [k \in 1..Len(store) |-> store[k].content]
                  ELSE <<>>]
    /\ texts = <<>>
    /\ epc = "off"
    /\ queue = <<>>
    /\ worker = <<>>
    /\ batch_results = <<>>
    /\ all_embeddings = <<>>
    /\ fb = NoFallback
    /\ requests = <<>>
    /\ dim = ModelDim
    /\ other = Idle
    /\ ProcessorLoaded

\* the event loop resumes the other handler at an await of the running one,
\* or runs the handler of a request that has just arrived
Switch ==
    /\ req # other
    /\ req' = other
    /\ other' = req
    /\ UNCHANGED <<store, tempFiles, last, single, given, embedVars,
                   procVars>>

\* an UPDATE arrives; temp_uploads has room for the file of one UPDATE that
\* is under way
RaceUpdate(d, file) ==
    /\ ~(other.op = "update" /\ other.pc # "done")
    /\ StartUpdate(d, file)

NextRace ==
    \/ \E d \in DocIds, file \in UpdateFiles : RaceUpdate(d, file)
    \/ \E d \in DocIds : StartDelete(d)
    \/ CheckExists
    \/ DeleteChunks
    \/ SaveFile
    \/ ProcessFile
    \/ EmbedChunks
    \/ StoreChunks
    \/ Switch

SpecRace == InitRace /\ [][NextRace]_vars


(***************************************************************************)
(* Startup of the DocumentProcessor and _extract_json_metadata             *)
(* (SpecProcessor)                                                         *)
(***************************************************************************)
MaxChunkSize == 2
MaxItems == 2

\* the values CHUNK_SIZE and CHUNK_OVERLAP may be given in the environment
SettingsChoices ==
    [CHUNK_SIZE : 1..MaxChunkSize, CHUNK_OVERLAP : 0..(MaxChunkSize + 1)]

\* JSON values of a field: the numbers 1 and 2, a string, and true
JsonValues == {<<"num", 1>>, <<"num", 2>>, <<"str", 1>>, <<"bool", 1>>}
Fields == {"a", "b"}

\* JSON objects over the fields, JSON arrays of them, and the parsed files:
\* an array of objects, or a single object
JsonItems == UNION {[K -> JsonValues] : K \in SUBSET Fields}
JsonLists == UNION {[1..n -> JsonItems] : n \in 0..MaxItems}
JsonDocs ==
    {[kind |-> "list", items |-> l] : l \in JsonLists}
       \cup {[kind |-> "object", items |-> <<>>]}

\* isinstance(v, (int, float)): bool is a subclass of int
IsIntOrFloat(v) == v[1] \in {"num", "bool"}

\* isinstance(v, str)
IsStr(v) == v[1] = "str"

\* [item[key] for item in data if key in item], as numbers (True is 1)
Values(items, key) ==
    LET present == SelectSeq(items, LAMBDA item : key \in DOMAIN item)
    IN [k \in 1..Len(present) |-> present[k][key][2]]

RECURSIVE SeqSum(_)
SeqSum(values) ==
    IF values = <<>> THEN 0 ELSE Head(values) + SeqSum(Tail(values))

\* min, max, sum, avg (as the pair sum, len) and count of a non-empty list
NumericSummary(values) ==
    [min |-> CHOOSE v \in Range(values) : \A w \in Range(values) : v <= w,
     max |-> CHOOSE v \in Range(values) : \A w \in Range(values) : v >= w,
     sum |-> SeqSum(values),
     avg |-> <<SeqSum(values), Len(values)>>,
     count |-> Len(values)]

\* value_counts of a field
ValueCounts(items, key) ==
    LET present == SelectSeq(items, LAMBDA item : key \in DOMAIN item)
    IN [v \in {present[k][key] : k \in 1..Len(present)} |->
          Cardinality({k \in 1..Len(present) : present[k][key] = v})]

\* if len(value_counts) <= 50
CategoryLimit == 50

\* _extract_json_metadata(data)
extract_json_metadata(d) ==
    IF d.kind # "list" \/ d.items = <<>>
    THEN NoAggregation
    ELSE LET items == d.items
             keys == DOMAIN items[1]
             numeric ==
                {key \in keys :
                   \A i \in 1..Len(items) :
                      key \in DOMAIN items[i] => IsIntOrFloat(items[i][key])}
             categorical ==
                {key \in keys :
                   /\ \A i \in 1..Len(items) :
                         key \in DOMAIN items[i] => IsStr(items[i][key])
                   /\ Cardinality(DOMAIN ValueCounts(items, key))
                         <= CategoryLimit}
         IN [numeric_fields |->
                [key \in numeric |-> NumericSummary(Values(items, key))],
             categorical_fields |->
                [key \in categorical |-> ValueCounts(items, key)],
             keys |-> {"numeric_fields", "categorical_fields"}]

InitProcessor ==
    /\ store = <<>>
    /\ tempFiles = {}
    /\ req = Idle
    /\ last = NoCall
    /\ single = [d \in DocIds |-> TRUE]
    /\ given = [d \in DocIds |-> <<>>]
    /\ texts = <<>>
    /\ epc = "off"
    /\ queue = <<>>
    /\ worker = <<>>
    /\ batch_results = <<>>
    /\ all_embeddings = <<>>
    /\ fb = NoFallback
    /\ requests = <<>>
    /\ dim = ModelDim
    /\ other = Idle
    /\ settings \in SettingsChoices
    /\ processor = "unbuilt"
    /\ data = NoData
    /\ aggregation_metadata = NoAggregation

\* document_processor = DocumentProcessor(): the splitter's constructor
\* raises ValueError when chunk_overlap is larger than chunk_size
LoadProcessor ==
    /\ processor = "unbuilt"
    /\ processor' = IF settings.CHUNK_OVERLAP > settings.CHUNK_SIZE
                    THEN "failed"
                    ELSE "ready"
    /\ UNCHANGED <<pipeVars, embedVars, other, settings, data,
                   aggregation_metadata>>

\* process_json: aggregation_metadata = self._extract_json_metadata(data),
\* for the one JSON file of a run
ExtractJsonMetadata(d) ==
    /\ processor = "ready"
    /\ data = NoData
    /\ data' = d
    /\ aggregation_metadata' = extract_json_metadata(d)
    /\ UNCHANGED <<pipeVars, embedVars, other, settings, processor>>

NextProcessor ==
    \/ LoadProcessor
    \/ \E d \in JsonDocs : ExtractJsonMetadata(d)

SpecProcessor == InitProcessor /\ [][NextProcessor]_vars


(***************************************************************************)
(* One call of get_batch_embeddings, request by request (SpecEmbed)        *)
(***************************************************************************)
\* vector lengths the call is tried with: that of models/embedding-001 and
\* that of a larger model
ModelDims == {ModelDim, 2 * ModelDim}

\* the input lists the call is tried with: n distinct texts
InputLists == { [i \in 1..n |-> ChunkText("t", i)] : n \in 0..MaxTexts }

InitEmbed ==
    /\ store = <<>>
    /\ tempFiles = {}
    /\ req = Idle
    /\ last = NoCall
    /\ single = [d \in DocIds |-> TRUE]
    /\ given = [d \in DocIds |-> <<>>]
    /\ texts \in InputLists
    /\ epc = "call"
    /\ queue = <<>>
    /\ worker = <<>>
    /\ batch_results = <<>>
    /\ all_embeddings = <<>>
    /\ fb = NoFallback
    /\ requests = [i \in 1..Len(texts) |->
                      [sent |-> 0, ok |-> FALSE, failed |-> 0]]
    /\ dim \in ModelDims
    /\ other = Idle
    /\ ProcessorLoaded

\* names of the threads a pool may start: never more than batches, hence
\* than texts
ThreadIds == 1..MaxTexts

\* index in texts of the i-th text of batch g
TextIndex(g, i) == (g - 1) * batch_size + i

\* variant: the early return is missing
IsEmptyInput_never(input) == FALSE

\* "if not texts"
IsEmptyInput(input) == input = <<>>

\* variant: the executor is created without max_workers
PoolThreads_unlimited(nb) == nb

\* ThreadPoolExecutor(max_workers=self.max_workers): submitting nb tasks
\* starts one thread per task until max_workers threads exist
PoolThreads(nb) == Min(nb, max_workers)

\* variant: the same pause before every retry
Backoff_constant(attempt) == retry_delay

\* time.sleep(self.retry_delay * (attempt + 1))
Backoff(attempt) == retry_delay * (attempt + 1)

\* variant: a text whose attempts all failed leaves no entry
RecordFailure_drop(result) == result

\* result.append(None) on the final attempt
RecordFailure(result) == Append(result, None)

\* variant: the failure of the fallback request is not caught
FallbackExcept_reraise(all) == [raised |-> TRUE, value |-> None]

\* "except Exception" around the fallback call: dim is the length of the
\* first entry that is not None, or 768; the slot gets [0.0] * dim
FallbackExcept(all) == [raised |-> FALSE, value |-> ZeroVector(FirstDim(all))]

\* lines 92-106: empty input returns []; otherwise the batches are built,
\* the executor is created and executor.map submits them all, in order
Call ==
    /\ epc = "call"
    /\ UNCHANGED notEmbedVars
    /\ IF IsEmptyInput(texts)
       THEN /\ epc' = "returned"
            /\ UNCHANGED <<queue, batch_results, worker>>
       ELSE /\ epc' = "pool"
            /\ queue' = [g \in 1..Len(Batches(texts)) |-> g]
            /\ batch_results' = [g \in 1..Len(Batches(texts)) |->
                                   [done |-> FALSE, result |-> <<>>]]
            /\ worker' = [w \in 1..PoolThreads(Len(Batches(texts))) |->
                            IdleWorker]
    /\ UNCHANGED <<texts, all_embeddings, fb, requests, dim>>

\* a free pool thread takes the oldest submitted batch
Take(w) ==
    /\ epc = "pool"
    /\ w \in DOMAIN worker
    /\ UNCHANGED notEmbedVars
    /\ worker[w].state = "idle"
    /\ queue # <<>>
    /\ worker' = [worker EXCEPT ![w] =
                    [IdleWorker EXCEPT !.state = "run", !.g = Head(queue),
                                       !.i = 1, !.phase = "ready"]]
    /\ queue' = Tail(queue)
    /\ UNCHANGED <<texts, epc, batch_results, all_embeddings, fb, requests,
                   dim>>

\* the thread's current text is the i-th of its batch, still to embed
Working(w) ==
    /\ epc = "pool"
    /\ w \in DOMAIN worker
    /\ worker[w].state = "run"
    /\ worker[w].i <= Len(Batches(texts)[worker[w].g])

\* genai.embed_content(...) is called
Issue(w) ==
    /\ Working(w)
    /\ UNCHANGED notEmbedVars
    /\ worker[w].phase = "ready"
    /\ worker' = [worker EXCEPT ![w].phase = "inflight"]
    /\ requests' = [requests EXCEPT
                      ![TextIndex(worker[w].g, worker[w].i)].sent = @ + 1]
    /\ UNCHANGED <<texts, epc, queue, batch_results, all_embeddings, fb,
                   dim>>

\* the request returns: result.append(embedding_result['embedding']); break
Succeed(w) ==
    /\ Working(w)
    /\ UNCHANGED notEmbedVars
    /\ worker[w].phase = "inflight"
    /\ LET t == TextIndex(worker[w].g, worker[w].i) IN
       /\ worker' = [worker EXCEPT
                       ![w].result = Append(@, Embedding(texts[t], dim)),
                       ![w].i = @ + 1, ![w].attempt = 0,
                       ![w].phase = "ready"]
       /\ requests' = [requests EXCEPT ![t].ok = TRUE]
    /\ UNCHANGED <<texts, epc, queue, batch_results, all_embeddings, fb,
                   dim>>

\* the request raises: sleep before the next attempt, or None for the slot
\* after the last attempt
Fail(w) ==
    /\ Working(w)
    /\ UNCHANGED notEmbedVars
    /\ worker[w].phase = "inflight"
    /\ worker' = IF worker[w].attempt < retry_attempts - 1
                 THEN [worker EXCEPT ![w].phase = "sleep",
                          ![w].delay = Backoff(worker[w].attempt)]
                 ELSE [worker EXCEPT ![w].result = RecordFailure(@),
                          ![w].i = @ + 1, ![w].attempt = 0,
                          ![w].phase = "ready"]
    /\ requests' = [requests EXCEPT
                      ![TextIndex(worker[w].g, worker[w].i)].failed = @ + 1]
    /\ UNCHANGED <<texts, epc, queue, batch_results, all_embeddings, fb,
                   dim>>

\* time.sleep returns; the next attempt of the for loop begins
Wake(w) ==
    /\ Working(w)
    /\ UNCHANGED notEmbedVars
    /\ worker[w].phase = "sleep"
    /\ worker' = [worker EXCEPT ![w].phase = "ready", ![w].delay = 0,
                                ![w].attempt = @ + 1]
    /\ UNCHANGED <<texts, epc, queue, batch_results, all_embeddings, fb,
                   requests, dim>>

\* return result: the task of batch g is done, the thread is free
Finish(w) ==
    /\ epc = "pool"
    /\ w \in DOMAIN worker
    /\ UNCHANGED notEmbedVars
    /\ worker[w].state = "run"
    /\ worker[w].i > Len(Batches(texts)[worker[w].g])
    /\ batch_results' = [batch_results EXCEPT ![worker[w].g] =
                           [done |-> TRUE, result |-> worker[w].result]]
    /\ worker' = [worker EXCEPT ![w] = IdleWorker]
    /\ UNCHANGED <<texts, epc, queue, all_embeddings, fb, requests, dim>>

\* list(executor.map(...)) has every result, in submission order, and the
\* with block has shut the pool down; the results are flattened into
\* all_embeddings
Collect ==
    /\ epc = "pool"
    /\ UNCHANGED notEmbedVars
    /\ \A g \in 1..Len(batch_results) : batch_results[g].done
    /\ all_embeddings' =
          Flatten([g \in 1..Len(batch_results) |-> batch_results[g].result])
    /\ epc' = "fallback"
    /\ fb' = [NoFallback EXCEPT !.i = 1, !.phase = "scan"]
    /\ worker' = <<>>
    /\ UNCHANGED <<texts, queue, batch_results, requests, dim>>

\* indices from fb.i on whose slot is None
Pending == {j \in fb.i..Len(all_embeddings) : all_embeddings[j] = None}

\* for i, embedding in enumerate(all_embeddings): if embedding is None;
\* return all_embeddings after the last index
Scan ==
    /\ epc = "fallback"
    /\ UNCHANGED notEmbedVars
    /\ fb.phase = "scan"
    /\ IF Pending = {}
       THEN /\ epc' = "returned"
            /\ fb' = NoFallback
       ELSE /\ epc' = epc
            /\ fb' = [NoFallback EXCEPT !.phase = "ready",
                        !.i = CHOOSE j \in Pending : \A k \in Pending : j <= k]
    /\ UNCHANGED <<texts, queue, worker, batch_results, all_embeddings,
                   requests, dim>>

\* get_embeddings(texts[i]): genai.embed_content(...) is called
FbIssue ==
    /\ epc = "fallback"
    /\ UNCHANGED notEmbedVars
    /\ fb.phase = "ready"
    /\ fb' = [fb EXCEPT !.phase = "inflight"]
    /\ requests' = [requests EXCEPT ![fb.i].sent = @ + 1]
    /\ UNCHANGED <<texts, epc, queue, worker, batch_results, all_embeddings,
                   dim>>

\* all_embeddings[i] = await self.get_embeddings(texts[i])
FbSucceed ==
    /\ epc = "fallback"
    /\ UNCHANGED notEmbedVars
    /\ fb.phase = "inflight"
    /\ all_embeddings' =
          [all_embeddings EXCEPT ![fb.i] = Embedding(texts[fb.i], dim)]
    /\ requests' = [requests EXCEPT ![fb.i].ok = TRUE]
    /\ fb' = [NoFallback EXCEPT !.i = fb.i + 1, !.phase = "scan"]
    /\ UNCHANGED <<texts, epc, queue, worker, batch_results, dim>>

\* variant: get_embeddings goes round its loop once more
get_embeddings_retries_late(attempt) == attempt < retry_attempts

\* variant: get_embeddings gives up one attempt early
get_embeddings_retries_early(attempt) == attempt < retry_attempts - 2

\* get_embeddings, in its except clause: if attempt < self.retry_attempts - 1
\* it sleeps and goes round the loop again, else it re-raises
get_embeddings_retries(attempt) == attempt < retry_attempts - 1

\* the request raises: get_embeddings sleeps and retries, or re-raises
\* after its last attempt into the except clause of the fallback
FbFail ==
    /\ epc = "fallback"
    /\ UNCHANGED notEmbedVars
    /\ fb.phase = "inflight"
    /\ IF get_embeddings_retries(fb.attempt)
       THEN /\ fb' = [fb EXCEPT !.phase = "sleep",
                                !.delay = Backoff(fb.attempt)]
            /\ UNCHANGED <<all_embeddings, epc>>
       ELSE LET handled == FallbackExcept(all_embeddings) IN
            IF handled.raised
            THEN /\ epc' = "raised"
                 /\ fb' = NoFallback
                 /\ UNCHANGED all_embeddings
            ELSE /\ all_embeddings' =
                       [all_embeddings EXCEPT ![fb.i] = handled.value]
                 /\ fb' = [NoFallback EXCEPT !.i = fb.i + 1,
                                             !.phase = "scan"]
                 /\ epc' = epc
    /\ requests' = [requests EXCEPT ![fb.i].failed = @ + 1]
    /\ UNCHANGED <<texts, queue, worker, batch_results, dim>>

\* time.sleep returns inside get_embeddings
FbWake ==
    /\ epc = "fallback"
    /\ UNCHANGED notEmbedVars
    /\ fb.phase = "sleep"
    /\ fb' = [fb EXCEPT !.phase = "ready", !.delay = 0, !.attempt = @ + 1]
    /\ UNCHANGED <<texts, epc, queue, worker, batch_results, all_embeddings,
                   requests, dim>>

NextEmbed ==
    \/ Call
    \/ \E w \in ThreadIds : Take(w)
    \/ \E w \in ThreadIds : Issue(w)
    \/ \E w \in ThreadIds : Succeed(w)
    \/ \E w \in ThreadIds : Fail(w)
    \/ \E w \in ThreadIds : Wake(w)
    \/ \E w \in ThreadIds : Finish(w)
    \/ Collect
    \/ Scan
    \/ FbIssue
    \/ FbSucceed
    \/ FbFail
    \/ FbWake

SpecEmbed == InitEmbed /\ [][NextEmbed]_vars

\* The same call when what can run does run: the event loop resumes the
\* coroutine, the pool's threads are scheduled, every request returns or
\* raises and every time.sleep ends.
InitEmbedFair == InitEmbed /\ Len(texts) <= MaxFairTexts

SpecEmbedFair == InitEmbedFair /\ [][NextEmbed]_vars /\ WF_vars(NextEmbed)

(***************************************************************************)
(* Properties of the handlers and of the store service (Spec)              *)
(***************************************************************************)
Supported == {"pdf", "docx", "txt", "json"}

\* a request of the given kind whose handler has returned or raised
Finished(op) == req.op = op /\ req.pc = "done"

\* the objects an ingest of the request's file puts under its document id
IngestedObjects ==
    ChunkObjects(req.chunks, req.embeddings, req.doc, req.file_type,
                 req.metadata)

\* C1: an UPLOAD of a file with a supported extension whose saving,
\* extraction, embedding and store calls all succeed returns 200 with its
\* document_id and metadata, and the file's chunks are then in the store
\* under that document_id.
C1_UploadSucceeds ==
    ( /\ Finished("upload")
      /\ file_extension(req.file.name) \in Supported
      /\ req.failedAt \notin {"save", "process"}
      /\ req.cause # "store" )
    => /\ req.status = 200
       /\ DocChunks(store, req.doc) = IngestedObjects

\* C2: an UPDATE of an existing document with a supported file whose
\* extraction, embedding and store calls succeed returns 200 for the
\* requested document_id, and the store then holds under it exactly the
\* chunks of the new file.
C2_UpdateReplaces ==
    ( /\ Finished("update")
      /\ file_extension(req.file.name) \in Supported
      /\ DocChunks(req.pre, req.doc) # <<>>
      /\ req.failedAt \notin {"check", "delete", "save", "process"}
      /\ req.cause # "store" )
    => /\ req.status = 200
       /\ DocChunks(store, req.doc) = IngestedObjects

\* C3: right after delete_document(id) has returned, whatever was upserted
\* under id before, the store holds no chunk of id, get_document_metadata(id)
\* is absent and query_document(v, id, limit) is empty for every v and limit.
C3_DeleteCompleteness ==
    (last.call = "delete_document" /\ ~last.raised)
    => /\ \A i \in 1..Len(store) : store[i].documentId # last.doc
       /\ get_document_metadata(store, last.doc) = {NotFound}
       /\ \A q \in QueryTexts, limit \in QueryLimits :
            query_document(store, Emb(q), last.doc, limit) = <<>>

\* C3 witness: a delete_document that returned after removing two chunks
C3_Witness ==
    last.call = "delete_document" /\ ~last.raised /\ last.removed >= 2

\* C5: after an UPLOAD that aborted, at whatever step, the store is what it
\* was when the upload began: no chunk of the upload is stored.
C5_AbortedUploadWritesNothing ==
    (Finished("upload") /\ req.status # 200)
    => /\ store = req.pre
       /\ DocChunks(store, req.doc) = <<>>

\* C5 witness: an upload that aborted at the upsert with its chunks and
\* vectors ready
C5_Witness ==
    /\ Finished("upload")
    /\ req.status = 500
    /\ req.failedAt = "store"
    /\ req.chunks # <<>>
    /\ Len(req.embeddings) = Len(req.chunks)

\* C6: when an UPDATE fails after it deleted the old chunks, the store holds
\* no chunk under the document_id, old or new, and the caller gets an error.
C6_FailedUpdateLeavesAbsent ==
    (Finished("update") /\ req.deleted /\ req.failedAt # "")
    => /\ DocChunks(store, req.doc) = <<>>
       /\ req.status = 500

\* C6 witness: an update of a stored document whose extraction failed after
\* the delete
C6_Witness ==
    /\ Finished("update")
    /\ req.deleted
    /\ req.failedAt = "process"
    /\ DocChunks(req.pre, req.doc) # <<>>

\* C7: a QUERY on a document_id without chunks ends with 404 whatever the
\* embedding of the query text does (the store answering the lookup).
C7_QueryMissingIs404 ==
    ( /\ Finished("query")
      /\ DocChunks(req.pre, req.doc) = <<>>
      /\ req.cause # "store" )
    => req.status = 404

\* C8 as stated: an UPDATE or a DELETE on a document_id without chunks
\* fails with 404 and changes nothing.
C8_MissingIdAlways404 ==
    ( /\ (Finished("update") \/ Finished("delete"))
      /\ DocChunks(req.pre, req.doc) = <<>> )
    => /\ req.status = 404
       /\ store = req.pre
       /\ ~req.saved
       /\ ~req.embedded

\* C8 amended: a DELETE, or an UPDATE whose file has a supported extension,
\* on a document_id without chunks fails with 404 when the store answers
\* the existence lookup, and it changes nothing: no chunk deleted or
\* inserted, no temporary file saved, no embedding request made.
C8_MissingId404 ==
    ( /\ \/ Finished("delete")
         \/ Finished("update") /\ file_extension(req.file.name) \in Supported
      /\ DocChunks(req.pre, req.doc) = <<>>
      /\ req.cause # "store" )
    => /\ req.status = 404
       /\ store = req.pre
       /\ ~req.saved
       /\ ~req.embedded
       /\ ~req.deleted
       /\ req.file_path = 0

\* C8 witness: an update with a supported file answered 404
C8_Witness ==
    /\ Finished("update")
    /\ file_extension(req.file.name) \in Supported
    /\ req.status = 404
    /\ req.read

C10_ChunkIndexContiguous ==
    \A d \in DocIds :
       single[d] =>
          LET cs == DocChunks(store, d) IN
          /\ {cs[i].chunkIndex : i \in 1..Len(cs)} = 0..(Len(cs) - 1)
          /\ Len(cs) <= Len(given[d])
          /\ \A i \in 1..Len(cs) :
                cs[i].content = given[d][cs[i].chunkIndex + 1]

\* C10 witness: a document stored by one upsert of two chunks
C10_Witness ==
    \E d \in DocIds :
       /\ single[d]
       /\ Len(DocChunks(store, d)) >= 2
       /\ Len(DocChunks(store, d)) = Len(given[d])


\* C11: every ingest that reported success created the document: after an
\* UPLOAD answered 200 with document_id d, and after an upsert of an
\* extracted file under d returned normally, get_document_metadata(d) is not
\* absent (so a following QUERY, UPDATE or DELETE on d is not answered 404),
\* whatever number of chunks the extraction yielded.
C11_SuccessfulIngestCreates ==
    /\ (Finished("upload") /\ req.status = 200)
          => NotFound \notin get_document_metadata(store, req.doc)
    /\ (last.call = "add_document_chunks" /\ ~last.raised)
          => NotFound \notin get_document_metadata(store, last.doc)

\* C12: get_document_metadata(id) returns absent exactly when the store
\* holds no chunk of id; when it holds one, the call returns the file_type
\* and the metadata that a chunk of id carries, never those of another
\* document.
C12_MetadataLookup ==
    \A d \in DocIds :
       LET cs == DocChunks(store, d) IN
       \A m \in get_document_metadata(store, d) :
          IF cs = <<>>
          THEN m = NotFound
          ELSE /\ ~m.raised
               /\ m.found
               /\ \E o \in Range(cs) :
                     /\ m.fileType = o.fileType
                     /\ m.metadata = o.metadata[2]

\* C13: once the response of an UPLOAD or UPDATE has left, the temporary
\* file the call saved is deleted, on the success path and on every failure
\* path: between requests temp_uploads holds no file.
C13_TempFileReleased ==
    req.pc = "idle" => tempFiles = {}

\* the value carries a per-chunk embedding_degraded mark that is set
Flagged(x) == "embedding_degraded" \in DOMAIN x /\ x.embedding_degraded

\* C18: a degraded embedding is never hidden: exactly the chunks whose
\* vector is the zero-vector fallback carry a set embedding_degraded flag,
\* in what get_batch_embeddings hands to its caller and in the stored chunk.
C18_DegradedFlagged ==
    /\ \A i \in 1..Len(req.embeddings) :
          (req.embeddings[i].of[1] = "zero") <=> Flagged(req.embeddings[i])
    /\ \A i \in 1..Len(store) :
          (store[i].vector.of[1] = "zero") <=> Flagged(store[i])

\* the contents a parser reads without error
ExtractableContents == {"empty", "one", "nan", "big"}

\* chunks is raw cut to its first MAX_CHUNKS_PER_DOC entries, or raw itself
\* when it is not longer
Capped(chunks, raw) ==
    /\ Len(chunks) = Min(Len(raw), MAX_CHUNKS_PER_DOC)
    /\ \A k \in 1..Len(chunks) : chunks[k] = raw[k]

\* process_file caps the chunks of every readable content, for every type
ProcessFileCaps ==
    \A c \in ExtractableContents, ft \in processors :
       /\ ~process_file(c, ft).raised
       /\ Capped(process_file(c, ft).chunks, split_text(c))

\* C21: chunk cap: for each of pdf, docx, txt and json, a file whose text
\* splits into more than MAX_CHUNKS_PER_DOC chunks is processed without
\* error into exactly the first MAX_CHUNKS_PER_DOC chunks in their order,
\* and a file with fewer keeps all its chunks; so neither a handler nor a
\* stored document gets more than MAX_CHUNKS_PER_DOC chunks from one file.
C21_ChunkCap ==
    /\ ProcessFileCaps
    /\ (req.op \in {"upload", "update"} /\ req.pc \in {"embed", "store"})
          => Capped(req.chunks, split_text(req.file.content))
    /\ \A d \in DocIds :
          single[d] =>
             /\ Len(given[d]) <= MAX_CHUNKS_PER_DOC
             /\ Len(DocChunks(store, d)) <= MAX_CHUNKS_PER_DOC

\* C21 witness: a document stored from the file whose text splits into
\* MAX_CHUNKS_PER_DOC + 1 chunks holds the first MAX_CHUNKS_PER_DOC of them
C21_Witness ==
    \E d \in DocIds :
       /\ single[d]
       /\ Len(split_text("big")) > MAX_CHUNKS_PER_DOC
       /\ given[d] = SubSeq(split_text("big"), 1, MAX_CHUNKS_PER_DOC)
       /\ Len(DocChunks(store, d)) = MAX_CHUNKS_PER_DOC

\* C22: round-trip metadata: after add_document_chunks has stored chunks of
\* a document with a metadata value, get_document_metadata reads back a
\* value equal to the one that was stored: the read does not fail, and what
\* it returns is the value whose serialized form the document's chunks hold.
C22_MetadataRoundTrip ==
    (/\ last.call = "add_document_chunks"
     /\ ~last.raised
     /\ DocChunks(store, last.doc) # <<>>)
       => \A m \in get_document_metadata(store, last.doc) :
             /\ ~m.raised
             /\ m.found
             /\ \E o \in Range(DocChunks(store, last.doc)) :
                   o.metadata = PyStr(m.metadata)

\* C23: delete_document(id), in its one step, removes every chunk whose
\* documentId is id and no chunk of any other document (the other
\* documents' chunks stay, in their order); called with an id that has no
\* chunk it returns normally and leaves the store as it was; a call that
\* fails in the store removes nothing.
C23_DeleteFrame ==
    [][ last'.call = "delete_document" =>
          IF last'.raised
          THEN store' = store
          ELSE /\ DocChunks(store', last'.doc) = <<>>
               /\ \A e \in DocIds \ {last'.doc} :
                     DocChunks(store', e) = DocChunks(store, e)
               /\ Len(store') =
                     Len(store) - Len(DocChunks(store, last'.doc))
               /\ DocChunks(store, last'.doc) = <<>> => store' = store
      ]_vars

\* C23 witness: delete_document has removed the chunks of one document
\* while another document's chunks are in the store
C23_Witness ==
    /\ last.call = "delete_document"
    /\ ~last.raised
    /\ last.removed > 0
    /\ store # <<>>

\* matches is an answer to the search of document d for q with this limit:
\* at most limit chunks, all of them stored chunks of d at or above the
\* certainty floor, in non-increasing certainty, and none of d's chunks left
\* out unless the limit was reached with chunks at least as close
QueryAnswer(matches, q, d, limit) ==
    /\ Len(matches) <= limit
    /\ \A k \in 1..Len(matches) :
          /\ matches[k] \in Range(store)
          /\ matches[k].documentId = d
          /\ Certainty(q, matches[k].vector) >= CertaintyFloor
    /\ \A j, k \in 1..Len(matches) :
          j < k => Certainty(q, matches[j].vector)
                      >= Certainty(q, matches[k].vector)
    /\ \A o \in Range(DocChunks(store, d)) \ Range(matches) :
          Certainty(q, o.vector) >= CertaintyFloor
             => /\ Len(matches) = limit
                /\ Certainty(q, o.vector)
                      <= Certainty(q, matches[limit].vector)

\* C24: query_document(query_vector, document_id, limit) returns at most
\* limit chunks, each a chunk of the requested document at or above the
\* similarity floor, best match first; a chunk of another document is never
\* returned, however close it is to the query; this holds of every search
\* of the store as it is between two requests, and the QUERY handler
\* answers with such a list.
C24_QueryDocument ==
    /\ req.pc = "idle" =>
          \A d \in DocIds, t \in QueryTexts, limit \in QueryLimits :
             LET matches == query_document(store, Emb(t), d, limit)
             IN QueryAnswer(matches, Emb(t), d, limit)
    /\ (Finished("query") /\ req.status = 200)
          => QueryAnswer(req.matches, req.query_embedding, req.doc,
                         req.limit)

\* C24 witness: a QUERY was answered with a match while another document
\* holds a chunk that is as close to the query as the best match
C24_Witness ==
    /\ Finished("query")
    /\ req.status = 200
    /\ req.matches # <<>>
    /\ \E o \in Range(store) :
          /\ o.documentId # req.doc
          /\ Certainty(req.query_embedding, o.vector)
                >= Certainty(req.query_embedding, req.matches[1].vector)

\* C24 witness of the order: the one match of an answer is the closest
\* chunk of the document and not the first one stored
C24_RankedWitness ==
    /\ Finished("query")
    /\ req.status = 200
    /\ Len(req.matches) = 1
    /\ Len(DocChunks(store, req.doc)) >= 2
    /\ req.matches[1] # DocChunks(store, req.doc)[1]

\* groups holds the matches grouped by document: one group per document id,
\* each match in the group of its own document id and in no other, none lost
\* or repeated, and inside a group the matches in the order they came
Grouped(groups, matches) ==
    /\ \A g, h \in 1..Len(groups) :
          groups[g].document_id = groups[h].document_id => g = h
    /\ \A g \in 1..Len(groups) :
          /\ groups[g].matches # <<>>
          /\ groups[g].matches =
                SelectSeq(matches,
                          LAMBDA m : m.documentId = groups[g].document_id)
    /\ \A k \in 1..Len(matches) :
          \E g \in 1..Len(groups) :
             groups[g].document_id = matches[k].documentId

\* C25: a CROSS-QUERY whose query embedding succeeded is answered, without
\* any check that a document exists, with the store's matches grouped by
\* document id: every match in exactly the group of its document id, none
\* lost or duplicated, best-first order kept inside each group.
C25_CrossQueryGrouped ==
    (Finished("cross") /\ req.embedded /\ req.cause # "embedding")
       => /\ req.status = 200
          /\ ~req.read
          /\ Grouped(req.groups, req.matches)

\* C26: a JSON aggregation request with an operation of min, max, sum, avg,
\* count is answered 404 on an unknown document id, with a client error on
\* a document that is not JSON, and on an existing JSON document with the
\* numeric result and a source tag that is "precomputed" or "computed".
C26_JsonAggregation ==
    (Finished("aggregate") /\ req.cause \notin {"store", "eval"})
       => LET types == {o.fileType : o \in Range(DocChunks(store, req.doc))}
          IN /\ (types = {}) => (req.status = 404)
             /\ (types # {} /\ "json" \notin types) => (req.status = 400)
             /\ (types = {"json"}) =>
                   (/\ req.status = 200
                    /\ req.result.source \in {"precomputed", "computed"})

\* C31: all chunks stored under one document id carry the same file_type
\* and the same metadata value, those of the ingest that wrote them: one
\* upsert writes the file type and metadata of its file on every chunk, and
\* an UPLOAD or UPDATE that is on its way to the upsert finds no chunk under
\* its document id (a fresh id, or the old chunks deleted), so that an
\* ingest never adds to the chunks of an earlier one.
C31_UniformPerDocument ==
    /\ \A d \in DocIds :
          single[d] =>
             LET cs == DocChunks(store, d) IN
             /\ \A i, j \in 1..Len(cs) :
                   /\ cs[i].fileType = cs[j].fileType
                   /\ cs[i].metadata = cs[j].metadata
             /\ cs # <<>> =>
                   \E in \in ServiceInputs :
                      /\ given[d] = process_file(in[1], in[2]).chunks
                      /\ cs[1].fileType = in[2]
                      /\ cs[1].metadata =
                            PyStr(process_file(in[1], in[2]).metadata)
    /\ (/\ req.op \in {"upload", "update"}
        /\ req.pc \in {"save", "process", "embed", "store"})
          => DocChunks(store, req.doc) = <<>>

\* C31 witness: add_document_chunks has returned and the store holds its
\* document, of several chunks, all written by that one upsert
C31_Witness ==
    /\ last.call = "add_document_chunks"
    /\ ~last.raised
    /\ single[last.doc]
    /\ Len(DocChunks(store, last.doc)) >= 2

\* the file types process_file treats as text formats
TextFormats == {"pdf", "docx", "txt"}

\* C32: for a document of a text format whose chunks come from one upsert,
\* the chunk_count its chunks record in their metadata is the number of
\* chunks stored under its document id, and that number is not smaller than
\* the number of chunks (after the cap) that extraction handed to the upsert.
C32_ChunkCountIsStoredCount ==
    \A d \in DocIds :
       single[d] =>
          LET cs == DocChunks(store, d) IN
          \A i \in 1..Len(cs) :
             cs[i].fileType \in TextFormats =>
                /\ PyEval(cs[i].metadata).chunk_count = Len(cs)
                /\ Len(cs) >= Len(given[d])

\* C33: a filename that passed the extension check of UPLOAD or UPDATE
\* reaches extraction with a supported file_type: once the file handler has
\* saved the file, the file_type it returned is the extension the endpoint
\* checked and is one of pdf, docx, txt, json, and no accepted file is
\* rejected by process_file as an unsupported file type.
C33_AcceptedTypeSupported ==
    (req.op \in {"upload", "update"} /\ req.saved) =>
       /\ req.file_type = file_extension(req.file.name)
       /\ req.file_type \in processors
       /\ ~(req.failedAt = "process" /\ req.cause = "file_type")

\* the chunks of the documents other than document_id, in store order
OtherChunks(s, document_id) ==
    SelectSeq(s, LAMBDA o : o.documentId # document_id)

\* C34: at every position of an UPLOAD, UPDATE or DELETE on document d,
\* on its success path and on each of its failure paths, the chunks of the
\* documents other than d are those the store held when the request came
\* in (none inserted, deleted or modified), and the id an UPLOAD generated
\* is not that of a document already in the store.
C34_OtherDocumentsUnchanged ==
    /\ (req.op \in {"upload", "update", "delete"} /\ req.pc # "idle")
          => OtherChunks(store, req.doc) = OtherChunks(req.pre, req.doc)
    /\ (req.op = "upload" /\ req.pc # "idle")
          => DocChunks(req.pre, req.doc) = <<>>

\* C34 witness: an UPDATE or DELETE has deleted the chunks of its document
\* while the store holds chunks of another document
C34_Witness ==
    /\ req.op \in {"update", "delete"}
    /\ req.deleted
    /\ DocChunks(req.pre, req.doc) # <<>>
    /\ DocChunks(store, req.doc) = <<>>
    /\ OtherChunks(store, req.doc) # <<>>

\* C34 witness of the UPLOAD part: an UPLOAD got its id and failed at the
\* upsert while the store holds chunks of another document
C34_UploadWitness ==
    /\ req.op = "upload"
    /\ req.failedAt = "store"
    /\ req.doc \in DocIds
    /\ store # <<>>

(***************************************************************************)
(* Properties of get_batch_embeddings (SpecEmbed)                          *)
(***************************************************************************)
\* C4: when get_batch_embeddings returns, whatever requests failed and in
\* whatever order the batches finished, the result has one vector per input
\* text and the vector in slot i is the embedding of texts[i] if a request
\* for texts[i] succeeded and the zero-vector fallback otherwise.
C4_LengthAndOrderPreserved ==
    epc = "returned" =>
       /\ Len(all_embeddings) = Len(texts)
       /\ \A i \in 1..Len(texts) :
             all_embeddings[i] =
                IF requests[i].ok THEN Embedding(texts[i], dim)
                ELSE ZeroVector(all_embeddings[i].dim)

\* C4 witness: a call over more than one batch has returned with a real
\* vector after a zero vector
C4_Witness ==
    /\ epc = "returned"
    /\ Len(texts) > batch_size
    /\ \E i, j \in 1..Len(texts) :
          /\ i < j
          /\ ~requests[i].ok
          /\ requests[j].ok
          /\ all_embeddings[j] = Embedding(texts[j], dim)

\* C14: get_batch_embeddings never raises because requests fail: for every
\* non-empty input list and every pattern of failing requests, also when
\* every request fails, the call does not end in an exception and what it
\* returns has a vector, real or zero, in every slot.
C14_NeverRaises ==
    /\ epc # "raised"
    /\ (epc = "returned" /\ texts # <<>>) =>
          /\ Len(all_embeddings) = Len(texts)
          /\ \A i \in 1..Len(all_embeddings) :
                /\ all_embeddings[i] # None
                /\ all_embeddings[i].dim > 0

\* C14 witness: a call over several texts has returned although each of
\* its requests failed, in the pool and in the fallback
C14_Witness ==
    /\ epc = "returned"
    /\ Len(texts) >= 2
    /\ \A i \in 1..Len(texts) :
          /\ ~requests[i].ok
          /\ requests[i].sent = 2 * retry_attempts
          /\ all_embeddings[i].of[1] = "zero"

\* C15: all vectors one get_batch_embeddings call returns have the same
\* length, for every pattern of failing requests and every length of the
\* model's vectors.
C15_UniformDimension ==
    epc = "returned" =>
       \A i, j \in 1..Len(all_embeddings) :
          all_embeddings[i].dim = all_embeddings[j].dim

\* the text a running thread is at, as an index of texts
CurrentText(w) == TextIndex(worker[w].g, worker[w].i)

\* the entries of a task's result list are those of the texts of batch g in
\* order: a real vector for a text answered within retry_attempts requests,
\* None for a text whose retry_attempts requests all failed in the pool
RecordedInOrder(g, result) ==
    \A k \in 1..Len(result) :
       LET t == TextIndex(g, k) IN
       IF result[k] = None
       THEN requests[t].sent >= retry_attempts
       ELSE /\ result[k] = Embedding(texts[t], dim)
            /\ requests[t].ok
            /\ requests[t].sent \in 1..retry_attempts

\* C16: retry policy of the pool threads: the requests for a text are made
\* one after another until the first success, at most retry_attempts of
\* them; after the k-th failure (k = 1, 2) the thread sleeps retry_delay * k
\* and after the last it does not sleep; a text whose requests all failed
\* gets None in its slot, and the texts after it and the other batches are
\* processed all the same.
C16_RetryPolicy ==
    /\ epc = "pool" =>
          \A t \in 1..Len(texts) :
             /\ requests[t].sent <= retry_attempts
             /\ requests[t].ok => requests[t].sent >= 1
    /\ \A w \in DOMAIN worker :
          worker[w].state = "run" =>
             /\ worker[w].attempt \in 0..(retry_attempts - 1)
             /\ Len(worker[w].result) = worker[w].i - 1
             /\ RecordedInOrder(worker[w].g, worker[w].result)
             /\ \A k \in 1..Len(worker[w].result) :
                   worker[w].result[k] = None =>
                      /\ requests[TextIndex(worker[w].g, k)].sent
                            = retry_attempts
                      /\ ~requests[TextIndex(worker[w].g, k)].ok
             /\ IF worker[w].phase = "sleep"
                THEN /\ worker[w].attempt + 1 \in 1..(retry_attempts - 1)
                     /\ worker[w].delay
                           = retry_delay * (worker[w].attempt + 1)
                     /\ requests[CurrentText(w)].sent = worker[w].attempt + 1
                ELSE worker[w].delay = 0
             /\ (Working(w) /\ worker[w].phase = "inflight") =>
                   /\ requests[CurrentText(w)].sent = worker[w].attempt + 1
                   /\ ~requests[CurrentText(w)].ok
             /\ (Working(w) /\ worker[w].phase = "ready") =>
                   /\ requests[CurrentText(w)].sent = worker[w].attempt
                   /\ ~requests[CurrentText(w)].ok
    /\ \A g \in 1..Len(batch_results) :
          batch_results[g].done =>
             /\ Len(batch_results[g].result) = Len(Batches(texts)[g])
             /\ RecordedInOrder(g, batch_results[g].result)
    /\ epc \in {"fallback", "returned"} =>
          \A g \in 1..Len(batch_results) : batch_results[g].done

\* C16 witness: a thread sleeps after the second failure for a text while
\* a finished batch holds a None followed by a real vector
C16_Witness ==
    /\ \E w \in DOMAIN worker :
          /\ worker[w].phase = "sleep"
          /\ worker[w].delay = retry_delay * 2
    /\ \E g \in 1..Len(batch_results) :
          /\ batch_results[g].done
          /\ Len(batch_results[g].result) >= 2
          /\ batch_results[g].result[1] = None
          /\ batch_results[g].result[2] # None

\* C17: fallback policy: requests of the fallback are made only after every
\* batch has completed; an item without a vector gets exactly one further
\* request and a zero vector if that fails too; an item that got its vector
\* in the pool is never requested again.
C17_FallbackOnce ==
    /\ fb.phase # "" =>
          /\ epc = "fallback"
          /\ \A g \in 1..Len(batch_results) : batch_results[g].done
          /\ \A w \in DOMAIN worker : worker[w].state = "idle"
    /\ \A t \in 1..Len(texts) : requests[t].sent <= retry_attempts + 1
    /\ \A g \in 1..Len(batch_results) :
          batch_results[g].done =>
             \A k \in 1..Len(batch_results[g].result) :
                batch_results[g].result[k] # None =>
                   requests[TextIndex(g, k)].sent <= retry_attempts
    /\ epc = "returned" =>
          \A t \in 1..Len(texts) :
             ~requests[t].ok => all_embeddings[t].of[1] = "zero"

\* requests that have been sent and not yet answered
InFlight ==
    Cardinality({w \in DOMAIN worker : worker[w].phase = "inflight"})
    + (IF fb.phase = "inflight" THEN 1 ELSE 0)

\* C19: bounded parallelism: the input is cut, in order, into consecutive
\* batches of at most batch_size texts; each batch is queued, run by one
\* thread from its first text to its last, or done; and never more than
\* max_workers requests are in flight.
C19_BoundedParallelism ==
    /\ InFlight <= max_workers
    /\ Flatten(Batches(texts)) = texts
    /\ \A g \in 1..Len(Batches(texts)) :
          Len(Batches(texts)[g]) \in 1..batch_size
    /\ epc = "pool" =>
          \A g \in 1..Len(Batches(texts)) :
             Cardinality({w \in DOMAIN worker :
                             worker[w].state = "run" /\ worker[w].g = g})
             + Cardinality({k \in 1..Len(queue) : queue[k] = g})
             + (IF batch_results[g].done THEN 1 ELSE 0) = 1

\* C19 witness: max_workers requests are in flight at once, each thread
\* on its own batch
C19_Witness ==
    /\ InFlight = max_workers
    /\ Len(texts) > batch_size
    /\ \A w \in DOMAIN worker : worker[w].phase = "inflight"

\* C20: get_batch_embeddings on an empty list returns an empty list at
\* once: no batch is built or submitted, no thread is started and no
\* request is made.
C20_EmptyInput ==
    texts = <<>> =>
       /\ epc \in {"call", "returned"}
       /\ all_embeddings = <<>>
       /\ worker = <<>>
       /\ queue = <<>>
       /\ batch_results = <<>>
       /\ InFlight = 0

\* C20 witness: the call on the empty list has returned
C20_Witness ==
    /\ texts = <<>>
    /\ epc = "returned"
    /\ all_embeddings = <<>>

\* requests that the get_embeddings call of the fallback has made for text t
SingleRequests(t) ==
    IF requests[t].sent > retry_attempts
    THEN requests[t].sent - retry_attempts
    ELSE 0

\* what holds of the fallback's get_embeddings call in every state
SinglePathState ==
    /\ (fb.phase \in {"ready", "inflight", "sleep"}) =>
          (/\ fb.attempt \in 0..(retry_attempts - 1)
           /\ ~requests[fb.i].ok
           /\ SingleRequests(fb.i) =
                 fb.attempt + (IF fb.phase = "ready" THEN 0 ELSE 1))
    /\ (epc = "returned") =>
          \A t \in 1..Len(texts) :
             (SingleRequests(t) > 0) =>
                LET failed == IF requests[t].ok
                              THEN SingleRequests(t) - 1
                              ELSE SingleRequests(t)
                    r == get_embeddings(texts[t], failed)
                IN /\ SingleRequests(t) <= retry_attempts
                   /\ r.raised <=> ~requests[t].ok
                   /\ r.raised <=> (all_embeddings[t].of[1] = "zero")
                   /\ (~requests[t].ok)
                         => (SingleRequests(t) = retry_attempts)
                   /\ requests[t].ok
                         => (/\ all_embeddings[t].of = r.value.of
                             /\ all_embeddings[t].dim = dim)

\* C30: get_embeddings, as the fallback calls it for one text: its attempts
\* are numbered 0 to 2 and each makes one request; it returns the vector of
\* its first successful request and makes no request after it; it raises
\* (here into the fallback's except clause, which leaves a zero vector)
\* only when exactly 3 requests of its own have failed, so 1 or 2 failed
\* requests followed by a success are not surfaced; and the outcome is the
\* one the QUERY handler's get_embeddings has for that number of failures.
C30_SinglePath ==
    /\ []SinglePathState
    /\ [][\A t \in 1..Len(texts) :
            requests[t].ok => (requests'[t] = requests[t])]_vars

\* C30 witness: a call has returned in which get_embeddings got the vector
\* of one text at its third request, after two failures of its own
C30_Witness ==
    /\ epc = "returned"
    /\ \E t \in 1..Len(texts) :
          /\ requests[t].ok
          /\ SingleRequests(t) = retry_attempts
          /\ all_embeddings[t] = Embedding(texts[t], dim)

(***************************************************************************)
(* Properties of the DocumentProcessor (SpecProcessor)                     *)
(***************************************************************************)
\* the items of the processed array that have field f
ItemsWith(f) == SelectSeq(data.items, LAMBDA item : f \in DOMAIN item)

\* summary is min, max, sum, avg and count of the numbers in values
SummaryOf(summary, values) ==
    /\ summary.count = Len(values)
    /\ summary.sum = SeqSum(values)
    /\ summary.avg = <<SeqSum(values), Len(values)>>
    /\ summary.min \in Range(values)
    /\ summary.max \in Range(values)
    /\ \A v \in Range(values) : summary.min <= v /\ v <= summary.max

\* C27: for a JSON array of objects, every field that occurs in at least one
\* item and is a number in every item where it occurs has in numeric_fields
\* its min, max, sum, avg and count over exactly the items where it is
\* present; a field with a non-numeric value in some item is not in
\* numeric_fields.
C27_AggregationMetadata ==
    (processor = "ready" /\ data.kind = "list") =>
       \A f \in Fields :
          LET with == ItemsWith(f)
              numeric_fields == aggregation_metadata.numeric_fields
          IN with # <<>> =>
                IF \A k \in 1..Len(with) : with[k][f][1] = "num"
                THEN /\ f \in DOMAIN numeric_fields
                     /\ SummaryOf(numeric_fields[f],
                                  [k \in 1..Len(with) |-> with[k][f][2]])
                ELSE f \notin DOMAIN numeric_fields

\* C28: a configuration with chunk_overlap >= chunk_size, equality included,
\* is rejected at startup: the processor is never ready to take documents
\* under such a configuration.
C28_OverlapRejected ==
    processor = "ready" => settings.CHUNK_OVERLAP < settings.CHUNK_SIZE

(***************************************************************************)
(* Properties of concurrent requests (SpecRace)                            *)
(***************************************************************************)
\* u is an UPDATE and d a DELETE of the same document, both complete, the
\* DELETE answered 200, and the UPDATE came to its upsert, with chunks to
\* write and without a failure of the store, after the DELETE's bulk delete
UpsertAfterDelete(u, d) ==
    /\ u.op = "update" /\ u.pc = "done"
    /\ d.op = "delete" /\ d.pc = "done"
    /\ u.doc = d.doc
    /\ d.status = 200
    /\ u.status = 200 \/ u.failedAt = "store"
    /\ u.cause # "store"
    /\ u.chunks # <<>>
    /\ last.call # "delete_document"

\* C29: without a per-document lock, an UPDATE and a DELETE of one document
\* can interleave so that the store holds chunks under an id whose DELETE
\* reported success: when the UPDATE's upsert runs after the DELETE has
\* removed the document, then, once both are complete, the store holds
\* chunks under that id.
C29_RaceLeavesChunks ==
    \A pair \in {<<req, other>>, <<other, req>>} :
       UpsertAfterDelete(pair[1], pair[2])
          => DocChunks(store, pair[1].doc) # <<>>

(***************************************************************************)
(* Termination of get_batch_embeddings (SpecEmbedFair)                     *)
(***************************************************************************)
\* the call has returned to its caller or raised
Terminated == epc \in {"returned", "raised"}

\* the request counts of every state of a call
RequestBounds ==
    /\ \A t \in 1..Len(texts) :
          /\ requests[t].sent <= 2 * retry_attempts
          /\ (epc \in {"call", "pool"}) => requests[t].sent <= retry_attempts
          /\ SingleRequests(t) <= retry_attempts
          /\ requests[t].failed <= requests[t].sent
    /\ Terminated =>
          \A t \in 1..Len(texts) :
             (requests[t].failed = 0) => (requests[t].sent = 1)

\* C35: for every input list and every pattern of request failures the call
\* of get_batch_embeddings terminates; no text is requested more than 6
\* times, at most 3 times by the pool and at most 3 times by the fallback;
\* and when it has terminated, each text none of whose requests failed was
\* requested exactly once (so every text exactly once when no request
\* failed).
C35_TerminatesWithBoundedRequests ==
    /\ <>Terminated
    /\ []RequestBounds

\* C35 witness: a call on several texts has returned in which one text was
\* requested 6 times, every request failing, and another exactly once
C35_Witness ==
    /\ epc = "returned"
    /\ \E t, u \in 1..Len(texts) :
          /\ requests[t].sent = 2 * retry_attempts
          /\ requests[t].failed = 2 * retry_attempts
          /\ requests[u].sent = 1
          /\ requests[u].failed = 0

====
